---- MODULE Spec2Model ----
(***************************************************************************)
(* Model of the Afams Mini Accounting backend (server.js and the mongoose  *)
(* schemas): registration, login, the bearer-token guard and the           *)
(* per-user resource handlers over the document store.                     *)
(*                                                                         *)
(* Strings that the code inspects character by character (emails, for      *)
(* toLowerCase) are sequences of one-character strings.  Documents are      *)
(* functions from field names to values, so that a missing field is a      *)
(* field outside the DOMAIN.  createdAt/updatedAt stamps and the order of  *)
(* lists returned by GET are not modelled.                                 *)
(***************************************************************************)
EXTENDS Integers, Sequences, FiniteSets, TLC

\* ------------------------------------------------------------------ bounds
MaxTime == 7
MaxTokens == 2
MaxInflight == 2
MaxTx == 2
MaxBal == 1
MaxCustomCat == 1

\* ----------------------------------------------------------- configuration
JWT_EXPIRES_IN == 7
JWT_SECRET == "server-secret"
OtherSecret == "attacker-secret"
MinPasswordLength == 4

\* ------------------------------------------------------------------ inputs
Emails ==
  { <<>>, <<"A", "@", "x">>, <<"a", "@", "x">>, <<"b", "@", "x">> }
Passwords == { "", "abc", "abcd", "wxyz" }
RegPasswords == { "", "abc", "abcd" }

\* String.prototype.toLowerCase, character by character
LowerChar(c) ==
  CASE c = "A" -> "a"
    [] c = "B" -> "b"
    [] c = "X" -> "x"
    [] OTHER -> c

ToLowerCase(s) == [i \in 1..Len(s) |-> LowerChar(s[i])]

\* ------------------------------------------------------------------- state
VARIABLES users, transactions, balanceItems, categories,
          nextTxId, nextCustomCat, now, issued, inflight, resp

vars == <<users, transactions, balanceItems, categories,
          nextTxId, nextCustomCat, now, issued, inflight, resp>>

Procs == 1..MaxInflight
Idle == [pc |-> "idle"]

\* ----------------------------------------------------------- User model
\* bcrypt hash of the pre-save hook and comparePassword of models/User.js
HashPassword(p) == <<"bcrypt", p>>
ComparePassword(p, digest) == digest = HashPassword(p)

\* email.toLowerCase() in the queries of /register and /login, and in the
\* document /register stores
LookupEmailRaw(email) == email
LookupEmail(email) == ToLowerCase(email)
StoredEmailRaw(email) == email
StoredEmail(email) == ToLowerCase(email)

\* User.findOne({ email })
FindUserByEmail(e) == { u \in users : u.email = e }
\* User.findById(id)
FindUserById(id) == { u \in users : u.id = id }
\* the unique index on User.email: does the store accept an insert of e?
UserIndexAccepts(e) == \A u \in users : u.email # e
\* a fresh ObjectId; users are never deleted
NewUserId == Cardinality(users) + 1
UserIds == 1..Cardinality({ ToLowerCase(e) : e \in Emails \ {<<>>} })

\* ------------------------------------------------------------ Token service
\* jwt.sign / jwt.verify: a token is a payload and a signature over the
\* payload under a secret; wf is FALSE for a string that is not a JWT.
Signature(payload, secret) == <<secret, payload>>
JwtSign(payload, secret) ==
  [wf |-> TRUE, payload |-> payload, sig |-> Signature(payload, secret)]
Malformed ==
  [wf |-> FALSE, payload |-> [userId |-> 0, iat |-> 0, exp |-> 0],
   sig |-> <<"", [userId |-> 0, iat |-> 0, exp |-> 0]>>]

generateToken(userId, t) ==
  JwtSign([userId |-> userId, iat |-> t, exp |-> t + JWT_EXPIRES_IN], JWT_SECRET)

\* jwt.verify throws on a malformed token, a bad signature or an expired
\* token (clock >= exp); verifyToken turns every throw into null.
verifyTokenNoExpiry(token, t) ==
  IF token.wf /\ token.sig = Signature(token.payload, JWT_SECRET)
  THEN [ok |-> TRUE, claims |-> token.payload]
  ELSE [ok |-> FALSE]
verifyToken(token, t) ==
  IF /\ token.wf
     /\ token.sig = Signature(token.payload, JWT_SECRET)
     /\ t < token.payload.exp
  THEN [ok |-> TRUE, claims |-> token.payload]
  ELSE [ok |-> FALSE]

\* ------------------------------------------------------- request headers
NoHeader == [present |-> FALSE, scheme |-> "", token |-> Malformed]
Bearer(tok) == [present |-> TRUE, scheme |-> "Bearer", token |-> tok]
Basic(tok) == [present |-> TRUE, scheme |-> "Basic", token |-> tok]

\* tokens a client can put in a request: the ones the server issued, the
\* same with the userId claim rewritten (signature kept), the same payloads
\* signed under another secret, and a string that is not a token
TamperedTokens ==
  { [tok EXCEPT !.payload.userId = u] : tok \in issued, u \in UserIds } \ issued
ForeignTokens == { JwtSign(tok.payload, OtherSecret) : tok \in issued }
PresentableTokens == issued \cup TamperedTokens \cup ForeignTokens \cup {Malformed}
Headers ==
  {NoHeader, Basic(Malformed)} \cup { Bearer(tok) : tok \in PresentableTokens }

\* --------------------------------------------------- Authorization guard
InvalidToken == "Token tidak valid"
UserNotFound == "User tidak ditemukan"
ServerError == "Terjadi kesalahan pada server"

authenticateTrusting(h, t) ==
  IF ~h.present \/ h.scheme # "Bearer" \/ ~h.token.wf
  THEN [ok |-> FALSE, status |-> 401, message |-> InvalidToken]
  ELSE IF FindUserById(h.token.payload.userId) = {}
  THEN [ok |-> FALSE, status |-> 401, message |-> UserNotFound]
  ELSE [ok |-> TRUE, userId |-> h.token.payload.userId]
authenticate(h, t) ==
  IF ~h.present \/ h.scheme # "Bearer"
  THEN [ok |-> FALSE, status |-> 401, message |-> InvalidToken]
  ELSE LET decoded == verifyToken(h.token, t) IN
       IF ~decoded.ok
       THEN [ok |-> FALSE, status |-> 401, message |-> InvalidToken]
       ELSE IF FindUserById(decoded.claims.userId) = {}
       THEN [ok |-> FALSE, status |-> 401, message |-> UserNotFound]
       ELSE [ok |-> TRUE, userId |-> decoded.claims.userId]

\* the response record of the last completed request
Response(route, h, uid, id, body, status, message, data) ==
  [route |-> route, h |-> h, uid |-> uid, id |-> id, body |-> body,
   status |-> status, message |-> message, data |-> data]
NoBody == <<>>
NoData == <<>>

\* --------------------------------------------------------- Category model
DefaultIncomeCategories == <<"Penjualan", "Jasa", "Komisi", "Lainnya">>
DefaultExpenseCategories == <<"Supplier Cost", "Transport", "Office Expense", "Other">>
DefaultCategories ==
  [i \in 1..4 |-> [type |-> "income", name |-> DefaultIncomeCategories[i]]]
  \o [i \in 1..4 |-> [type |-> "expense", name |-> DefaultExpenseCategories[i]]]
NumDefaults == Len(DefaultCategories)
\* fresh ObjectIds: the k-th default of user u, and the n-th custom category
DefaultCatId(u, k) == (u - 1) * NumDefaults + k
CustomCatId(n) == Cardinality(UserIds) * NumDefaults + n

\* the unique index { userId, type, name } of the Category collection
CategoryIndexAccepts(cats, uid, type, name) ==
  \A c \in cats : ~(c.userId = uid /\ c.type = type /\ c.name = name)

\* createDefaultCategories: Category.create one by one; the first rejected
\* create throws into the catch, which ends the loop
RECURSIVE CreateDefaultsFrom(_, _, _)
CreateDefaultsFrom(cats, uid, k) ==
  IF k > NumDefaults THEN cats
  ELSE LET d == DefaultCategories[k] IN
       IF ~CategoryIndexAccepts(cats, uid, d.type, d.name) THEN cats
       ELSE CreateDefaultsFrom(
              cats \cup {[id |-> DefaultCatId(uid, k), userId |-> uid,
                          type |-> d.type, name |-> d.name, isDefault |-> TRUE]},
              uid, k + 1)
createDefaultCategories(uid) == CreateDefaultsFrom(categories, uid, 1)

\* ------------------------------------------------------------------- Init
Init ==
  /\ users = {}
  /\ transactions = {}
  /\ balanceItems = {}
  /\ categories = {}
  /\ nextTxId = 1
  /\ nextCustomCat = 1
  /\ now = 0
  /\ issued = {}
  /\ inflight = [p \in Procs |-> Idle]
  /\ resp = Response("none", NoHeader, 0, 0, NoBody, 0, "", NoData)

\* Date.now() read d days later
Tick(d) ==
  /\ now + d <= MaxTime
  /\ now' = now + d
  /\ UNCHANGED <<users, transactions, balanceItems, categories,
                 nextTxId, nextCustomCat, issued, inflight, resp>>

\* ----------------------------------------------------------- POST /register
RegBody(email, password) == [email |-> email, password |-> password]
FieldsRequired == "Email dan password harus diisi"
PasswordTooShort == "Password minimal 4 karakter"
EmailTaken == "Email sudah terdaftar"
Registered == "Pendaftaran berhasil. Silakan login."

\* validation and the existence check, up to the await of User.findOne
RegisterCheck(p, email, password) ==
  /\ inflight[p] = Idle
  /\ LET body == RegBody(email, password)
         fail(msg) ==
           /\ resp' = Response("POST /register", NoHeader, 0, 0, body, 400, msg, NoData)
           /\ UNCHANGED inflight
     IN IF email = <<>> \/ password = ""
        THEN fail(FieldsRequired)
        ELSE IF Len(password) < MinPasswordLength
        THEN fail(PasswordTooShort)
        ELSE IF FindUserByEmail(LookupEmail(email)) # {}
        THEN fail(EmailTaken)
        ELSE /\ inflight' = [inflight EXCEPT ![p] =
                    [pc |-> "regSave", body |-> body]]
             /\ UNCHANGED resp
  /\ UNCHANGED <<users, transactions, balanceItems, categories,
                 nextTxId, nextCustomCat, now, issued>>

\* user.save(): the store rejects a second record with the same email and
\* the rejection lands in the handler's catch
RegisterSave(p) ==
  /\ inflight[p].pc = "regSave"
  /\ LET r == inflight[p]
         email == StoredEmail(r.body.email)
     IN
     IF UserIndexAccepts(email)
     THEN /\ users' = users \cup {[id |-> NewUserId, email |-> email,
                                    password |-> HashPassword(r.body.password)]}
          /\ inflight' = [inflight EXCEPT ![p] =
                 [pc |-> "regDefaults", body |-> r.body, userId |-> NewUserId]]
          /\ UNCHANGED resp
     ELSE /\ resp' = Response("POST /register", NoHeader, 0, 0, r.body,
                              500, ServerError, NoData)
          /\ inflight' = [inflight EXCEPT ![p] = Idle]
          /\ UNCHANGED users
  /\ UNCHANGED <<transactions, balanceItems, categories,
                 nextTxId, nextCustomCat, now, issued>>

\* createDefaultCategories(user._id) and the 201 response
RegisterDefaults(p) ==
  /\ inflight[p].pc = "regDefaults"
  /\ categories' = createDefaultCategories(inflight[p].userId)
  /\ resp' = Response("POST /register", NoHeader, 0, 0, inflight[p].body,
                      201, Registered, NoData)
  /\ inflight' = [inflight EXCEPT ![p] = Idle]
  /\ UNCHANGED <<users, transactions, balanceItems,
                 nextTxId, nextCustomCat, now, issued>>

\* -------------------------------------------------------------- POST /login
BadCredentials == "Email atau password salah"
LoggedIn == "Login berhasil"

\* const isPasswordValid = await user.comparePassword(password)
isPasswordValidAny(user, password) == TRUE
isPasswordValid(user, password) == ComparePassword(password, user.password)

Login(email, password) ==
  /\ LET body == RegBody(email, password)
         found == FindUserByEmail(LookupEmail(email))
         out(status, msg, data) ==
           resp' = Response("POST /login", NoHeader, 0, 0, body, status, msg, data)
     IN IF email = <<>> \/ password = ""
        THEN out(400, FieldsRequired, NoData) /\ UNCHANGED issued
        ELSE IF found = {}
        THEN out(401, BadCredentials, NoData) /\ UNCHANGED issued
        ELSE LET user == CHOOSE u \in found : TRUE IN
             IF ~isPasswordValid(user, password)
             THEN out(401, BadCredentials, NoData) /\ UNCHANGED issued
             ELSE LET token == generateToken(user.id, now) IN
                  /\ token \in issued \/ Cardinality(issued) < MaxTokens
                  /\ issued' = issued \cup {token}
                  /\ out(200, LoggedIn,
                         [token |-> token,
                          user |-> [id |-> user.id, email |-> user.email]])
  /\ UNCHANGED <<users, transactions, balanceItems, categories,
                 nextTxId, nextCustomCat, now, inflight>>

\* ------------------------------------------------------ documents, schemas
Restrict(f, S) == [k \in (DOMAIN f) \cap S |-> f[k]]
\* mongoose "required": the path is present (Has) and, for a String path,
\* not the empty string (Present)
Has(f, k) == k \in DOMAIN f
Present(f, k) == Has(f, k) /\ f[k] # ""

TransactionPaths ==
  {"userId", "type", "date", "category", "description", "amount",
   "customerName", "invoiceNumber"}
TransactionTypes == {"income", "expense"}
BalanceItemPaths == {"userId", "type", "date", "category", "description", "amount"}
BalanceItemTypes == {"asset", "liability", "equity"}
CategoryTypes == {"income", "expense"}
MinAmount == 0

\* transactionSchema validators, run by save()
ValidTransaction(d) ==
  /\ Has(d, "userId")
  /\ Present(d, "type") /\ d.type \in TransactionTypes
  /\ Has(d, "date")
  /\ Present(d, "category")
  /\ Present(d, "description")
  /\ Has(d, "amount") /\ d.amount >= MinAmount
  /\ (d.type = "income" => Present(d, "customerName"))

\* balanceItemSchema validators, run by save()
ValidBalanceItem(d) ==
  /\ Has(d, "userId")
  /\ Present(d, "type") /\ d.type \in BalanceItemTypes
  /\ Has(d, "date")
  /\ Present(d, "category")
  /\ Present(d, "description")
  /\ Has(d, "amount") /\ d.amount >= MinAmount

\* categorySchema validators, run by save()
ValidCategory(d) ==
  /\ Has(d, "userId")
  /\ Present(d, "type") /\ d.type \in CategoryTypes
  /\ Present(d, "name")

\* new Transaction(data): schema paths only, defaults applied, fresh _id
NewTransaction(data, id) ==
  [id |-> id] @@ Restrict(data, TransactionPaths) @@ [invoiceNumber |-> ""]
NewBalanceItem(data, id) == [id |-> id] @@ Restrict(data, BalanceItemPaths)

\* request payloads
IncomeBody ==
  [type |-> "income", date |-> 1, category |-> "Jasa", description |-> "d",
   amount |-> 5, customerName |-> "cust"]
ExpenseBody ==
  [type |-> "expense", date |-> 1, category |-> "Transport", description |-> "d",
   amount |-> 3]
TxBodies ==
  {IncomeBody, ExpenseBody}
  \cup { [userId |-> u] @@ ExpenseBody : u \in UserIds }
  \cup { Restrict(ExpenseBody, DOMAIN ExpenseBody \ {"date"}),
         [type |-> "transfer"] @@ ExpenseBody,
         [amount |-> 0 - 1] @@ ExpenseBody,
         Restrict(IncomeBody, DOMAIN IncomeBody \ {"customerName"}) }
PutBodies ==
  {[amount |-> 9]} \cup { [userId |-> u, description |-> "e"] : u \in UserIds }
AssetBody ==
  [type |-> "asset", date |-> 1, category |-> "Kas", description |-> "d", amount |-> 10]
BalBodies ==
  {AssetBody, [type |-> "liability"] @@ AssetBody}
  \cup { [userId |-> u] @@ AssetBody : u \in UserIds }
  \cup { [type |-> "income"] @@ AssetBody,
         [amount |-> 0 - 1] @@ AssetBody,
         Restrict(AssetBody, DOMAIN AssetBody \ {"category"}) }
CatBodies ==
  { [type |-> "income", name |-> "Jasa"], [type |-> "income", name |-> "Sewa"],
    [type |-> "expense", name |-> ""], [type |-> "asset", name |-> "Sewa"] }
  \cup { [type |-> "income", name |-> "Sewa", userId |-> u] : u \in UserIds }

\* ids a request can name: ids of stored or once-stored records, and 0,
\* a well-formed id that no record ever had
TxIds == 0..MaxTx
CatIds ==
  {0} \cup { DefaultCatId(u, 1) : u \in UserIds }
      \cup { CustomCatId(n) : n \in 1..MaxCustomCat }

RECURSIVE SumAmount(_)
SumAmount(S) ==
  IF S = {} THEN 0
  ELSE LET d == CHOOSE x \in S : TRUE IN d.amount + SumAmount(S \ {d})
OfType(S, type) == { d \in S : d.type = type }

\* ------------------------------------------------------ protected handlers
\* each handler is given req.userId as set by authenticate
TxNotFound == "Transaksi tidak ditemukan"
CatNotFound == "Kategori tidak ditemukan atau tidak dapat dihapus"

\* Transaction.find({ userId }), BalanceItem.find, Category.find
FindTransactionsUnscoped(uid) == transactions
FindTransactions(uid) == { t \in transactions : t.userId = uid }
FindBalanceItems(uid) == { b \in balanceItems : b.userId = uid }
FindCategories(uid) == { c \in categories : c.userId = uid }

getDashboard(uid) ==
  LET txs == FindTransactions(uid)
      bis == FindBalanceItems(uid)
      totalIncome == SumAmount(OfType(txs, "income"))
      totalExpense == SumAmount(OfType(txs, "expense"))
  IN [status |-> 200, message |-> "Dashboard data berhasil diambil",
      data |-> [userId |-> uid,
                totalIncome |-> totalIncome,
                totalExpense |-> totalExpense,
                profit |-> totalIncome - totalExpense,
                totalAssets |-> SumAmount(OfType(bis, "asset")),
                totalLiabilities |-> SumAmount(OfType(bis, "liability")),
                totalEquity |-> SumAmount(OfType(bis, "equity")),
                transactionCount |-> Cardinality(txs),
                balanceItemCount |-> Cardinality(bis)]]

getTransactions(uid) ==
  [status |-> 200, message |-> "", data |-> FindTransactions(uid)]

getBalanceItems(uid) ==
  [status |-> 200, message |-> "", data |-> FindBalanceItems(uid)]

getCategories(uid) ==
  LET cats == FindCategories(uid) IN
  [status |-> 200, message |-> "",
   data |-> [income |-> { c.name : c \in OfType(cats, "income") },
             expense |-> { c.name : c \in OfType(cats, "expense") }]]

\* { ...req.body, userId: req.userId }
StampUserIdClientWins(body, uid) == body @@ [userId |-> uid]
StampUserId(body, uid) == [userId |-> uid] @@ body

postTransaction(uid, body) ==
  LET transaction == NewTransaction(StampUserId(body, uid), nextTxId) IN
  IF ValidTransaction(transaction)
  THEN [status |-> 201, message |-> "Transaksi berhasil ditambahkan",
        data |-> transaction, transactions |-> transactions \cup {transaction}]
  ELSE [status |-> 500, message |-> ServerError,
        data |-> NoData, transactions |-> transactions]

\* findOneAndUpdate({ _id, userId }, { ...req.body, updatedAt }, { new: true })
UpdateMatchAnyOwner(uid, id) == { t \in transactions : t.id = id }
UpdateMatch(uid, id) == { t \in transactions : t.id = id /\ t.userId = uid }
UpdateSet(body) == Restrict(body, TransactionPaths)
putTransaction(uid, id, body) ==
  LET match == UpdateMatch(uid, id) IN
  IF match = {}
  THEN [status |-> 404, message |-> TxNotFound,
        data |-> NoData, transactions |-> transactions]
  ELSE LET old == CHOOSE t \in match : TRUE
           new == UpdateSet(body) @@ old
       IN [status |-> 200, message |-> "Transaksi berhasil diupdate",
           data |-> new, transactions |-> (transactions \ {old}) \cup {new}]

\* findOneAndDelete({ _id, userId })
DeleteTxMatch(uid, id) == { t \in transactions : t.id = id /\ t.userId = uid }
deleteTransaction(uid, id) ==
  LET match == DeleteTxMatch(uid, id) IN
  IF match = {}
  THEN [status |-> 404, message |-> TxNotFound,
        data |-> NoData, transactions |-> transactions]
  ELSE [status |-> 200, message |-> "Transaksi berhasil dihapus",
        data |-> NoData, transactions |-> transactions \ match]

postBalanceItem(uid, body) ==
  LET balanceItem ==
        NewBalanceItem(StampUserId(body, uid), Cardinality(balanceItems) + 1) IN
  IF ValidBalanceItem(balanceItem)
  THEN [status |-> 201, message |-> "Item neraca berhasil ditambahkan",
        data |-> balanceItem, balanceItems |-> balanceItems \cup {balanceItem}]
  ELSE [status |-> 500, message |-> ServerError,
        data |-> NoData, balanceItems |-> balanceItems]

\* findOneAndDelete({ _id, userId, isDefault: false })
DeleteCatMatchAnyFlag(uid, id) ==
  { c \in categories : c.id = id /\ c.userId = uid }
DeleteCatMatch(uid, id) ==
  { c \in categories : c.id = id /\ c.userId = uid /\ c.isDefault = FALSE }
deleteCategory(uid, id) ==
  LET match == DeleteCatMatch(uid, id) IN
  IF match = {}
  THEN [status |-> 404, message |-> CatNotFound,
        data |-> NoData, categories |-> categories]
  ELSE [status |-> 200, message |-> "Kategori berhasil dihapus",
        data |-> NoData, categories |-> categories \ match]

\* ------------------------------------------------------- protected routes
\* app.<verb>(route, authenticate, handler): the handler runs only after
\* authenticate called next(); otherwise authenticate's 401 is the response
Reply(route, h, a, id, body, r) ==
  IF a.ok
  THEN Response(route, h, a.userId, id, body, r.status, r.message, r.data)
  ELSE Response(route, h, 0, id, body, a.status, a.message, NoData)

GetDashboard(h) ==
  /\ LET a == authenticate(h, now) IN
     resp' = Reply("GET /dashboard", h, a, 0, NoBody, getDashboard(a.userId))
  /\ UNCHANGED <<users, transactions, balanceItems, categories,
                 nextTxId, nextCustomCat, now, issued, inflight>>

GetTransactions(h) ==
  /\ LET a == authenticate(h, now) IN
     resp' = Reply("GET /transactions", h, a, 0, NoBody, getTransactions(a.userId))
  /\ UNCHANGED <<users, transactions, balanceItems, categories,
                 nextTxId, nextCustomCat, now, issued, inflight>>

GetBalanceItems(h) ==
  /\ LET a == authenticate(h, now) IN
     resp' = Reply("GET /balance-items", h, a, 0, NoBody, getBalanceItems(a.userId))
  /\ UNCHANGED <<users, transactions, balanceItems, categories,
                 nextTxId, nextCustomCat, now, issued, inflight>>

GetCategories(h) ==
  /\ LET a == authenticate(h, now) IN
     resp' = Reply("GET /categories", h, a, 0, NoBody, getCategories(a.userId))
  /\ UNCHANGED <<users, transactions, balanceItems, categories,
                 nextTxId, nextCustomCat, now, issued, inflight>>

PostTransaction(h, body) ==
  /\ LET a == authenticate(h, now)
         r == postTransaction(a.userId, body)
     IN /\ resp' = Reply("POST /transactions", h, a, 0, body, r)
        /\ IF a.ok /\ r.status = 201
           THEN /\ nextTxId <= MaxTx
                /\ transactions' = r.transactions
                /\ nextTxId' = nextTxId + 1
           ELSE UNCHANGED <<transactions, nextTxId>>
  /\ UNCHANGED <<users, balanceItems, categories,
                 nextCustomCat, now, issued, inflight>>

PutTransaction(h, id, body) ==
  /\ LET a == authenticate(h, now)
         r == putTransaction(a.userId, id, body)
     IN /\ resp' = Reply("PUT /transactions/:id", h, a, id, body, r)
        /\ transactions' = IF a.ok THEN r.transactions ELSE transactions
  /\ UNCHANGED <<users, balanceItems, categories,
                 nextTxId, nextCustomCat, now, issued, inflight>>

DeleteTransaction(h, id) ==
  /\ LET a == authenticate(h, now)
         r == deleteTransaction(a.userId, id)
     IN /\ resp' = Reply("DELETE /transactions/:id", h, a, id, NoBody, r)
        /\ transactions' = IF a.ok THEN r.transactions ELSE transactions
  /\ UNCHANGED <<users, balanceItems, categories,
                 nextTxId, nextCustomCat, now, issued, inflight>>

PostBalanceItem(h, body) ==
  /\ LET a == authenticate(h, now)
         r == postBalanceItem(a.userId, body)
     IN /\ resp' = Reply("POST /balance-items", h, a, 0, body, r)
        /\ IF a.ok /\ r.status = 201
           THEN /\ Cardinality(balanceItems) < MaxBal
                /\ balanceItems' = r.balanceItems
           ELSE UNCHANGED balanceItems
  /\ UNCHANGED <<users, transactions, categories,
                 nextTxId, nextCustomCat, now, issued, inflight>>

\* ---------------------------------------------------------- POST /categories
TypeNameRequired == "Type dan name harus diisi"
CategoryExists == "Kategori sudah ada"
CategoryAdded == "Kategori berhasil ditambahkan"

\* Category.findOne({ userId, type, name })
FindCategory(uid, type, name) ==
  { c \in categories : c.userId = uid /\ c.type = type /\ c.name = name }

\* authenticate, the validation and the existence check, up to the await
PostCategoryCheck(p, h, body) ==
  /\ inflight[p] = Idle
  /\ LET a == authenticate(h, now)
         out(status, msg) ==
           /\ resp' = Reply("POST /categories", h, a, 0, body,
                            [status |-> status, message |-> msg, data |-> NoData])
           /\ UNCHANGED inflight
     IN IF ~a.ok
        THEN out(401, a.message)
        ELSE IF ~Present(body, "type") \/ ~Present(body, "name")
        THEN out(400, TypeNameRequired)
        ELSE IF FindCategory(a.userId, body.type, body.name) # {}
        THEN out(400, CategoryExists)
        ELSE /\ inflight' = [inflight EXCEPT ![p] =
                    [pc |-> "catSave", h |-> h, body |-> body, userId |-> a.userId]]
             /\ UNCHANGED resp
  /\ UNCHANGED <<users, transactions, balanceItems, categories,
                 nextTxId, nextCustomCat, now, issued>>

\* category.save(): a validation error or a rejection by the unique index
\* lands in the handler's catch
PostCategorySave(p) ==
  /\ inflight[p].pc = "catSave"
  /\ LET r == inflight[p]
         a == [ok |-> TRUE, userId |-> r.userId]
         category == [id |-> CustomCatId(nextCustomCat), userId |-> r.userId,
                      type |-> r.body.type, name |-> r.body.name,
                      isDefault |-> FALSE]
     IN IF /\ ValidCategory(category)
           /\ CategoryIndexAccepts(categories, r.userId, r.body.type, r.body.name)
        THEN /\ nextCustomCat <= MaxCustomCat
             /\ categories' = categories \cup {category}
             /\ nextCustomCat' = nextCustomCat + 1
             /\ resp' = Reply("POST /categories", r.h, a, 0, r.body,
                              [status |-> 201, message |-> CategoryAdded,
                               data |-> category])
        ELSE /\ resp' = Reply("POST /categories", r.h, a, 0, r.body,
                              [status |-> 500, message |-> ServerError,
                               data |-> NoData])
             /\ UNCHANGED <<categories, nextCustomCat>>
  /\ inflight' = [inflight EXCEPT ![p] = Idle]
  /\ UNCHANGED <<users, transactions, balanceItems, nextTxId, now, issued>>

DeleteCategory(h, id) ==
  /\ LET a == authenticate(h, now)
         r == deleteCategory(a.userId, id)
     IN /\ resp' = Reply("DELETE /categories/:id", h, a, id, NoBody, r)
        /\ categories' = IF a.ok THEN r.categories ELSE categories
  /\ UNCHANGED <<users, transactions, balanceItems,
                 nextTxId, nextCustomCat, now, issued, inflight>>

\* ------------------------------------------------------------ specification
Next ==
  \/ \E d \in {1, JWT_EXPIRES_IN} : Tick(d)
  \/ \E p \in Procs, e \in Emails, pw \in Passwords : RegisterCheck(p, e, pw)
  \/ \E p \in Procs : RegisterSave(p)
  \/ \E p \in Procs : RegisterDefaults(p)
  \/ \E e \in Emails, pw \in Passwords : Login(e, pw)
  \/ \E h \in Headers : GetDashboard(h)
  \/ \E h \in Headers : GetTransactions(h)
  \/ \E h \in Headers : GetBalanceItems(h)
  \/ \E h \in Headers : GetCategories(h)
  \/ \E h \in Headers, b \in TxBodies : PostTransaction(h, b)
  \/ \E h \in Headers, id \in TxIds, b \in PutBodies : PutTransaction(h, id, b)
  \/ \E h \in Headers, id \in TxIds : DeleteTransaction(h, id)
  \/ \E h \in Headers, b \in BalBodies : PostBalanceItem(h, b)
  \/ \E p \in Procs, h \in Headers, b \in CatBodies : PostCategoryCheck(p, h, b)
  \/ \E p \in Procs : PostCategorySave(p)
  \/ \E h \in Headers, id \in CatIds : DeleteCategory(h, id)

Spec == Init /\ [][Next]_vars

\* ---------------------------------------------------------------------------
\* Data isolation: two accounts holding valid tokens.  Each specification
\* below runs the routes of one group of requests.
IsoEmails == { <<"a", "@", "x">>, <<"b", "@", "x">> }
IsoPassword == "abcd"
IssuedHeaders == { Bearer(tok) : tok \in issued }
IsoTxBodies == {IncomeBody} \cup { [userId |-> u] @@ ExpenseBody : u \in UserIds }
IsoPutBodies == {[amount |-> 9]} \cup { [userId |-> u] : u \in UserIds }
IsoBalBodies == {AssetBody} \cup { [userId |-> u] @@ AssetBody : u \in UserIds }
IsoCatBodies ==
  { [type |-> "income", name |-> "Jasa"] }
  \cup { [type |-> "income", name |-> "Sewa", userId |-> u] : u \in UserIds }

Accounts ==
  \/ \E e \in IsoEmails : RegisterCheck(1, e, IsoPassword)
  \/ RegisterSave(1)
  \/ RegisterDefaults(1)
  \/ \E e \in IsoEmails : Login(e, IsoPassword)

\* update and delete by id; a transaction is posted when none is stored,
\* so that one record is live at a time
WriteTxBodies == { [userId |-> u] @@ ExpenseBody : u \in UserIds }
NextWrite ==
  \/ Accounts
  \/ transactions = {} /\ \E h \in IssuedHeaders, b \in WriteTxBodies : PostTransaction(h, b)
  \/ \E h \in IssuedHeaders, id \in TxIds, b \in IsoPutBodies : PutTransaction(h, id, b)
  \/ \E h \in IssuedHeaders, id \in TxIds : DeleteTransaction(h, id)
  \/ \E h \in IssuedHeaders, b \in IsoCatBodies : PostCategoryCheck(1, h, b)
  \/ PostCategorySave(1)
  \/ \E h \in IssuedHeaders, id \in CatIds : DeleteCategory(h, id)

SpecWrite == Init /\ [][NextWrite]_vars

\* categories alone
NextCategory ==
  \/ Accounts
  \/ \E h \in IssuedHeaders, b \in IsoCatBodies : PostCategoryCheck(1, h, b)
  \/ PostCategorySave(1)
  \/ \E h \in IssuedHeaders, id \in CatIds : DeleteCategory(h, id)

SpecCategory == Init /\ [][NextCategory]_vars

\* creates
NextCreate ==
  \/ Accounts
  \/ \E h \in IssuedHeaders, b \in IsoTxBodies : PostTransaction(h, b)
  \/ \E h \in IssuedHeaders, b \in IsoBalBodies : PostBalanceItem(h, b)
  \/ \E h \in IssuedHeaders, b \in IsoCatBodies : PostCategoryCheck(1, h, b)
  \/ PostCategorySave(1)

SpecCreate == Init /\ [][NextCreate]_vars

\* creates with payloads the schemas accept and payloads they reject
NextValidate ==
  \/ Accounts
  \/ \E h \in IssuedHeaders, b \in TxBodies : PostTransaction(h, b)
  \/ \E h \in IssuedHeaders, b \in BalBodies : PostBalanceItem(h, b)

SpecValidate == Init /\ [][NextValidate]_vars

\* reads, over stores filled by the creates and the update
ReadPutBodies == { [userId |-> u] : u \in UserIds }
NextRead ==
  \/ Accounts
  \/ \E h \in IssuedHeaders, b \in IsoTxBodies : PostTransaction(h, b)
  \/ \E h \in IssuedHeaders, id \in TxIds, b \in ReadPutBodies : PutTransaction(h, id, b)
  \/ \E h \in IssuedHeaders, b \in IsoBalBodies : PostBalanceItem(h, b)
  \/ \E h \in IssuedHeaders : GetDashboard(h)
  \/ \E h \in IssuedHeaders : GetTransactions(h)
  \/ \E h \in IssuedHeaders : GetBalanceItems(h)
  \/ \E h \in IssuedHeaders : GetCategories(h)

SpecRead == Init /\ [][NextRead]_vars

\* ---------------------------------------------------------------------------
\* Concurrent creates: requests of /register and POST /categories in flight
\* between their existence check and their save.
NextRace ==
  \/ \E p \in Procs, e \in Emails, pw \in RegPasswords : RegisterCheck(p, e, pw)
  \/ \E p \in Procs : RegisterSave(p)
  \/ \E p \in Procs : RegisterDefaults(p)
  \/ \E e \in IsoEmails : Login(e, IsoPassword)
  \/ \E p \in Procs, h \in IssuedHeaders, b \in CatBodies : PostCategoryCheck(p, h, b)
  \/ \E p \in Procs : PostCategorySave(p)

SpecRace == Init /\ [][NextRace]_vars

\* /register alone
NextRegister ==
  \/ \E p \in Procs, e \in Emails, pw \in RegPasswords : RegisterCheck(p, e, pw)
  \/ \E p \in Procs : RegisterSave(p)
  \/ \E p \in Procs : RegisterDefaults(p)

SpecRegister == Init /\ [][NextRegister]_vars

\* /login, with every email and password, over accounts whose passwords differ
LoginRegPasswords == { "abcd", "wxyz" }
NextLogin ==
  \/ \E e \in IsoEmails, pw \in LoginRegPasswords : RegisterCheck(1, e, pw)
  \/ RegisterSave(1)
  \/ RegisterDefaults(1)
  \/ \E e \in Emails, pw \in Passwords : Login(e, pw)

SpecLogin == Init /\ [][NextLogin]_vars

\* ---------------------------------------------------------------------------
\* The guard: every protected route, reached with every kind of header.
\* Two accounts are registered and one of them logs in, so that a token with
\* a rewritten userId claim names a user the store holds.
AuthLoginEmail == <<"a", "@", "x">>
AuthTxBodies == {ExpenseBody}
AuthPutBodies == {[amount |-> 9]}
AuthBalBodies == {AssetBody}
AuthCatBodies == { [type |-> "income", name |-> "Sewa"] }
AuthTxIds == {1}
AuthCatIds == { CustomCatId(n) : n \in 1..MaxCustomCat }

NextAuth ==
  \/ \E e \in IsoEmails : RegisterCheck(1, e, IsoPassword)
  \/ RegisterSave(1)
  \/ RegisterDefaults(1)
  \/ Login(AuthLoginEmail, IsoPassword)
  \/ \E h \in Headers : GetDashboard(h)
  \/ \E h \in Headers : GetTransactions(h)
  \/ \E h \in Headers : GetBalanceItems(h)
  \/ \E h \in Headers : GetCategories(h)
  \/ \E h \in Headers, b \in AuthTxBodies : PostTransaction(h, b)
  \/ \E h \in Headers, id \in AuthTxIds, b \in AuthPutBodies : PutTransaction(h, id, b)
  \/ \E h \in Headers, id \in AuthTxIds : DeleteTransaction(h, id)
  \/ \E h \in Headers, b \in AuthBalBodies : PostBalanceItem(h, b)
  \/ \E h \in Headers, b \in AuthCatBodies : PostCategoryCheck(1, h, b)
  \/ PostCategorySave(1)
  \/ \E h \in Headers, id \in AuthCatIds : DeleteCategory(h, id)

SpecAuth == Init /\ [][NextAuth]_vars

\* ---------------------------------------------------------------------------
\* The token service, day by day: tokens are issued by /login and presented
\* to a protected route.
NextToken ==
  \/ Tick(1)
  \/ Accounts
  \/ \E h \in Headers : GetDashboard(h)

SpecToken == Init /\ [][NextToken]_vars

\* ---------------------------------------------------------------------------
\* Properties.  A step "answers" a request when it replaces resp.
Answers(route) == resp' # resp /\ resp'.route = route
RegisteredIds == { u.id : u \in users }
Outcome(r) == [status |-> r.status, message |-> r.message, data |-> r.data]
StoreUnchanged == UNCHANGED <<users, transactions, balanceItems, categories>>

\* C1: a request by user B that names a transaction or category owned by
\* another user is answered 404, exactly as for an id no record has, and
\* changes nothing (PUT and DELETE /transactions/:id, DELETE /categories/:id).
C1_ForeignSameAsMissing ==
  \A b \in RegisteredIds :
    /\ \A t \in transactions : t.userId # b =>
         /\ \A body \in IsoPutBodies :
              LET r == putTransaction(b, t.id, body) IN
              /\ r.status = 404 /\ r.transactions = transactions
              /\ Outcome(r) = Outcome(putTransaction(b, 0, body))
         /\ LET r == deleteTransaction(b, t.id) IN
            /\ r.status = 404 /\ r.transactions = transactions
            /\ Outcome(r) = Outcome(deleteTransaction(b, 0))
    /\ \A c \in categories : c.userId # b =>
         LET r == deleteCategory(b, c.id) IN
         /\ r.status = 404 /\ r.categories = categories
         /\ Outcome(r) = Outcome(deleteCategory(b, 0))
C1_ForeignStep ==
  /\ (Answers("PUT /transactions/:id") \/ Answers("DELETE /transactions/:id"))
       /\ (\E t \in transactions : t.id = resp'.id /\ t.userId # resp'.uid)
     => resp'.status = 404 /\ resp'.message = TxNotFound /\ StoreUnchanged
  /\ Answers("DELETE /categories/:id")
       /\ (\E c \in categories : c.id = resp'.id /\ c.userId # resp'.uid)
     => resp'.status = 404 /\ resp'.message = CatNotFound /\ StoreUnchanged
C1_NotOwnedIsNotFound == []C1_ForeignSameAsMissing /\ [][C1_ForeignStep]_vars
C1_Witness ==
  /\ resp.route = "PUT /transactions/:id" /\ resp.status = 404
  /\ \E t \in transactions :
       /\ t.id = resp.id /\ t.userId # resp.uid /\ resp.uid \in RegisteredIds
       /\ \E c \in categories : ~c.isDefault /\ c.userId = t.userId

\* C2: the userId of a stored transaction never changes, so that it stays
\* the id of the caller who created it, also across PUT /transactions/:id
\* with a userId in the body.
C2_UserIdNeverChanges ==
  [][\A t \in transactions : \A n \in transactions' :
       n.id = t.id => n.userId = t.userId]_vars

\* C3: every successful create (POST /transactions, /balance-items,
\* /categories) stores a new record whose userId is the authenticated
\* caller's id, whatever userId the body carries.
C3_CreateOutcome ==
  \A u \in RegisteredIds :
    /\ \A b \in IsoTxBodies :
         LET r == postTransaction(u, b) IN
         r.status = 201 => r.data.userId = u /\ r.data \in r.transactions
    /\ \A b \in IsoBalBodies :
         LET r == postBalanceItem(u, b) IN
         r.status = 201 => r.data.userId = u /\ r.data \in r.balanceItems
C3_CreateStep ==
  /\ Answers("POST /transactions") /\ resp'.status = 201
     => /\ resp'.uid \in RegisteredIds /\ resp'.data.userId = resp'.uid
        /\ transactions' = transactions \cup {resp'.data}
        /\ resp'.data \notin transactions
  /\ Answers("POST /balance-items") /\ resp'.status = 201
     => /\ resp'.uid \in RegisteredIds /\ resp'.data.userId = resp'.uid
        /\ balanceItems' = balanceItems \cup {resp'.data}
        /\ resp'.data \notin balanceItems
  /\ Answers("POST /categories") /\ resp'.status = 201
     => /\ resp'.uid \in RegisteredIds /\ resp'.data.userId = resp'.uid
        /\ categories' = categories \cup {resp'.data}
        /\ resp'.data \notin categories
C3_CreateStampsCaller == []C3_CreateOutcome /\ [][C3_CreateStep]_vars
C3_Witness ==
  /\ resp.route = "POST /transactions" /\ resp.status = 201
  /\ Has(resp.body, "userId") /\ resp.body.userId # resp.uid
  /\ resp.data.userId = resp.uid /\ resp.data \in transactions
  /\ \E c \in categories : ~c.isDefault /\ c.userId = resp.uid
  /\ \E b \in balanceItems : b.userId = resp.uid

\* C4: GET /transactions, /balance-items, /categories and /dashboard of
\* user U return, or aggregate over, exactly the records whose userId is U.
Own(S, u) == { d \in S : d.userId = u }
C4_ReadOutcome ==
  \A u \in RegisteredIds :
    /\ \A d \in getTransactions(u).data : d \in transactions /\ d.userId = u
    /\ \A t \in transactions : t.userId = u => t \in getTransactions(u).data
    /\ \A d \in getBalanceItems(u).data : d \in balanceItems /\ d.userId = u
    /\ \A b \in balanceItems : b.userId = u => b \in getBalanceItems(u).data
    /\ \A type \in CategoryTypes :
         getCategories(u).data[type] =
           { c.name : c \in { x \in categories : x.userId = u /\ x.type = type } }
    /\ LET d == getDashboard(u).data IN
       /\ d.transactionCount = Cardinality(Own(transactions, u))
       /\ d.balanceItemCount = Cardinality(Own(balanceItems, u))
       /\ d.totalIncome = SumAmount(OfType(Own(transactions, u), "income"))
       /\ d.totalExpense = SumAmount(OfType(Own(transactions, u), "expense"))
       /\ d.totalAssets = SumAmount(OfType(Own(balanceItems, u), "asset"))
       /\ d.totalLiabilities = SumAmount(OfType(Own(balanceItems, u), "liability"))
       /\ d.totalEquity = SumAmount(OfType(Own(balanceItems, u), "equity"))
C4_ReadStep ==
  /\ Answers("GET /transactions")
     => resp'.status = 200 /\ resp'.data = Own(transactions, resp'.uid)
  /\ Answers("GET /balance-items")
     => resp'.status = 200 /\ resp'.data = Own(balanceItems, resp'.uid)
  /\ Answers("GET /categories")
     => resp'.status = 200 /\ resp'.data = getCategories(resp'.uid).data
  /\ Answers("GET /dashboard")
     => resp'.status = 200 /\ resp'.data = getDashboard(resp'.uid).data
C4_ReadsAreScoped == []C4_ReadOutcome /\ [][C4_ReadStep]_vars
C4_Witness ==
  /\ resp.route = "GET /transactions" /\ resp.status = 200
  /\ resp.data # {} /\ resp.data = Own(transactions, resp.uid)
  /\ \E t \in transactions : t.userId # resp.uid

\* C7: when two creates race past the existence check (two /register for one
\* normalized email, two POST /categories of one user for one type and
\* name), the request the store rejects is answered 400, not 500.
C7_RaceLoserGetsDuplicateError ==
  [][\A p \in Procs :
       /\ inflight[p].pc = "regSave" /\ inflight'[p] = Idle
            /\ (\E u \in users : u.email = ToLowerCase(inflight[p].body.email))
          => resp'.status = 400
       /\ inflight[p].pc = "catSave" /\ inflight'[p] = Idle
            /\ FindCategory(inflight[p].userId, inflight[p].body.type,
                            inflight[p].body.name) # {}
          => resp'.status = 400]_vars

\* C8: once an email is registered, a later /register whose email
\* lowercases to it is answered 400 (the duplicate error when the payload is
\* otherwise valid), never passes the existence check and stores nothing.
ValidRegBody(body) ==
  body.email # <<>> /\ body.password # "" /\ Len(body.password) >= MinPasswordLength
C8_Step ==
  /\ \A p \in Procs :
       inflight[p] = Idle /\ inflight'[p].pc = "regSave"
       => \A u \in users : u.email # ToLowerCase(inflight'[p].body.email)
  /\ Answers("POST /register") /\ inflight' = inflight
       /\ (\E u \in users : u.email = ToLowerCase(resp'.body.email))
     => /\ resp'.status = 400 /\ StoreUnchanged
        /\ ValidRegBody(resp'.body) => resp'.message = EmailTaken
C8_CaseVariantIsDuplicate == [][C8_Step]_vars
C8_Witness ==
  /\ resp.route = "POST /register" /\ resp.status = 400
  /\ resp.message = EmailTaken
  /\ resp.body.email # ToLowerCase(resp.body.email)
  /\ \E u \in users : u.email = ToLowerCase(resp.body.email)
  /\ \A p \in Procs : inflight[p] = Idle

\* C9: the store never holds two user records whose emails lowercase to the
\* same string, under any interleaving of /register requests.
C9_OneUserPerEmail ==
  \A u1 \in users : \A u2 \in users :
    ToLowerCase(u1.email) = ToLowerCase(u2.email) => u1 = u2
C9_Witness ==
  /\ resp.route = "POST /register" /\ resp.status = 500
  /\ \E u \in users : u.email = ToLowerCase(resp.body.email)
  /\ \E p \in Procs : inflight[p].pc = "regDefaults"

\* C5: a protected route runs its handler only for a request whose header is
\* "Bearer <token>" with a token the server signed, not yet expired, naming a
\* stored user, and then with req.userId set to that token's userId claim;
\* every other request is answered 401 and changes no stored record.
ProtectedRoutes ==
  {"GET /dashboard", "GET /transactions", "POST /transactions",
   "PUT /transactions/:id", "DELETE /transactions/:id", "GET /balance-items",
   "POST /balance-items", "GET /categories", "POST /categories",
   "DELETE /categories/:id"}
GuardShouldPass(h, t) ==
  /\ h.present /\ h.scheme = "Bearer"
  /\ \E u \in RegisteredIds, t0 \in 0..t :
       h.token = generateToken(u, t0) /\ t < t0 + JWT_EXPIRES_IN
C5_GuardOutcome ==
  \A h \in Headers \cup { Bearer(generateToken(u, now)) : u \in UserIds } :
    LET a == authenticate(h, now) IN
    IF GuardShouldPass(h, now)
    THEN a.ok /\ a.userId = h.token.payload.userId
    ELSE ~a.ok /\ a.status = 401
C5_Step ==
  /\ \A r \in ProtectedRoutes : Answers(r) /\ inflight' = inflight =>
       IF GuardShouldPass(resp'.h, now)
       THEN resp'.uid = resp'.h.token.payload.userId /\ resp'.status # 401
       ELSE resp'.status = 401 /\ resp'.uid = 0 /\ StoreUnchanged
  /\ \A p \in Procs :
       /\ inflight[p] = Idle /\ inflight'[p].pc = "catSave"
          => /\ GuardShouldPass(inflight'[p].h, now)
             /\ inflight'[p].userId = inflight'[p].h.token.payload.userId
       /\ inflight[p].pc = "catSave" /\ inflight'[p] = Idle
          => resp'.uid = inflight[p].userId
  /\ (\/ transactions' # transactions
      \/ balanceItems' # balanceItems
      \/ { c \in categories' : ~c.isDefault } # { c \in categories : ~c.isDefault })
     => resp'.route \in ProtectedRoutes /\ resp'.uid \in RegisteredIds
C5_GuardIsChokePoint == []C5_GuardOutcome /\ [][C5_Step]_vars
C5_Witness ==
  /\ resp.route = "DELETE /transactions/:id" /\ resp.status = 401
  /\ resp.h.token \in TamperedTokens
  /\ resp.h.token.payload.userId \in RegisteredIds
  /\ \E t \in transactions : t.id = resp.id

\* C10: verifyToken returns the claims of a token, with its userId, exactly
\* when the token is one generateToken made under the server secret and the
\* clock is before its expiry (issue time + 7 days); otherwise it returns
\* null and the guard answers 401.
C10_VerifyIssuedUnexpired ==
  \A tok \in PresentableTokens :
    LET v == verifyToken(tok, now)
        made == { m \in UserIds \X (0..now) : tok = generateToken(m[1], m[2]) }
    IN /\ v.ok <=> \E m \in made : now < m[2] + JWT_EXPIRES_IN
       /\ v.ok => \A m \in made : v.claims.userId = m[1]
       /\ ~v.ok =>
            authenticate(Bearer(tok), now) =
              [ok |-> FALSE, status |-> 401, message |-> InvalidToken]
C10_Witness ==
  /\ resp.route = "GET /dashboard" /\ resp.status = 401
  /\ resp.h.scheme = "Bearer" /\ resp.h.token \in issued
  /\ now = resp.h.token.payload.exp
  /\ \E tok \in issued : verifyToken(tok, now).ok

\* C6: DELETE /categories/:id on a default category is answered 404 and
\* leaves it stored, for its owner as for anyone else; a default category,
\* once stored, stays stored.
C6_DefaultOutcome ==
  \A u \in RegisteredIds : \A c \in categories : c.isDefault =>
    LET r == deleteCategory(u, c.id) IN
    r.status = 404 /\ r.categories = categories
C6_DefaultStep ==
  /\ \A c \in categories : c.isDefault => c \in categories'
  /\ Answers("DELETE /categories/:id") /\ resp'.uid # 0
       /\ (\E c \in categories : c.id = resp'.id /\ c.isDefault)
     => resp'.status = 404 /\ StoreUnchanged
C6_DefaultCategoryStays == []C6_DefaultOutcome /\ [][C6_DefaultStep]_vars
C6_Witness ==
  /\ resp.route = "DELETE /categories/:id" /\ resp.status = 404
  /\ \E c \in categories : c.id = resp.id /\ c.isDefault /\ c.userId = resp.uid

\* C11: a POST /transactions or POST /balance-items by an authenticated
\* caller whose payload fails validation (a required field missing, a type
\* outside the allowed set, a negative amount, an income transaction without
\* customerName) is answered 400 and stores no record.
C11_Required == {"type", "date", "category", "description", "amount"}
C11_TxPayloadFails(b) ==
  \/ \E k \in C11_Required : ~Has(b, k)
  \/ b.type \notin {"income", "expense"}
  \/ b.amount < 0
  \/ b.type = "income" /\ ~Has(b, "customerName")
C11_BalPayloadFails(b) ==
  \/ \E k \in C11_Required : ~Has(b, k)
  \/ b.type \notin {"asset", "liability", "equity"}
  \/ b.amount < 0
C11_InvalidCreateIs400 ==
  [][/\ Answers("POST /transactions") /\ resp'.uid # 0
        /\ C11_TxPayloadFails(resp'.body)
       => resp'.status = 400 /\ StoreUnchanged
     /\ Answers("POST /balance-items") /\ resp'.uid # 0
        /\ C11_BalPayloadFails(resp'.body)
       => resp'.status = 400 /\ StoreUnchanged]_vars

\* C12: POST /login answers 200 with a token only when a user is stored
\* under the lowercased email and the supplied password is the one that
\* user's digest was made from; the token then carries that user's id.  An
\* unknown email and a wrong password get the same 401 response, and no
\* login changes the store.
C12_Step ==
  Answers("POST /login") =>
    LET b == resp'.body
        matching == { u \in users : /\ u.email = ToLowerCase(b.email)
                                     /\ u.password = HashPassword(b.password) }
    IN /\ StoreUnchanged
       /\ resp'.status = 200 =>
            \E u \in matching :
              /\ resp'.data.token.payload.userId = u.id
              /\ resp'.data.user.id = u.id
              /\ verifyToken(resp'.data.token, now).ok
       /\ resp'.status # 200 => resp'.data = NoData
       /\ b.email # <<>> /\ b.password # "" /\ matching = {} =>
            Outcome(resp') =
              [status |-> 401, message |-> BadCredentials, data |-> NoData]
C12_LoginNeedsCredentials == [][C12_Step]_vars
C12_Witness ==
  /\ resp.route = "POST /login" /\ resp.status = 200
  /\ resp.body.email = <<"A", "@", "x">>
  /\ resp.data.token.payload.userId = 2
  /\ \E u \in users : u.id = 1 /\ u.password # HashPassword(resp.body.password)

====
